---- MODULE Spec2Model ----
(***************************************************************************)
(* State-machine model of cubeformer's decoder-only transformer            *)
(* (src/model/decoder_only.py) and of its training loop (src/trainer.py).  *)
(*                                                                         *)
(* A run starts at one of four entry points, chosen in Init:               *)
(*   "c_start"  DecoderOnlyTransformer(...) followed by a forward call     *)
(*   "l_start"  loss_fn / batch_metrics on a batch of tokens               *)
(*   "g_loop"   loader(dataset, batch_size, n_iters, key) iterated         *)
(*   "t_start"  train(...)                                                 *)
(*                                                                         *)
(* A random key is the path of splits that produced it from the root key:  *)
(* random.split(k, n) returns the n children of k.  Every call that        *)
(* consumes a key (split, choice, a layer initializer) is logged in the    *)
(* bag `consumed`.                                                         *)
(***************************************************************************)
EXTENDS Integers, Sequences, FiniteSets, Bags, TLC

\* ---- bounds of the model ----
MaxDModel  == 4
MaxHeads   == 2
MaxLayers  == 3
MaxSeqLen  == 3
MaxBatch   == 2
MaxData    == 2
MaxEvalIter == 2
MaxTrainIter == 201
MaxLoaderIter == 3

\* ---- program constants ----
EvalEvery  == 100
FfnExpand  == 4

VARIABLES
    pc,            \* position of the running entry point
    key,           \* the local `key` of the running function
    consumed,      \* bag of keys passed to a consuming call
    \* DecoderOnlyTransformer
    d_model, num_heads, num_layers,
    subkeys,       \* layer keys not yet used by the constructor
    embedding,     \* embedding built?
    layers,        \* the layer stack
    logits,        \* output projection built?
    mask,          \* mask built by the last forward call
    trace,         \* modules applied by the last forward call, in order
    \* loss_fn / batch_metrics
    tokens,        \* batch given to loss_fn / batch_metrics
    lx, ly,        \* x, y computed by the last loss_fn
    mx, my,        \* x, y computed by the last batch_metrics
    \* loader / train / eval
    train_dataset, test_dataset, batch_size, n_training_iter, n_eval_iter,
    dataloader,    \* generator feeding the loop of train (or iterated alone)
    evalloader,    \* generator feeding the loop of eval
    batch,         \* batch bound by the running for loop
    yielded,       \* batches yielded so far by dataloader
    draw_keys,     \* key of each draw made by dataloader
    params, opt_state,
    iter_id,
    prefix_idx,    \* position in [(train_dataset,"train"),(test_dataset,"test")]
    metrics,       \* per-batch metrics accumulated by eval
    all_metrics,   \* mapping "{prefix}/{name}" -> value being assembled
    logged         \* calls made to logger.log

vars == << pc, key, consumed, d_model, num_heads, num_layers, subkeys,
           embedding, layers, logits, mask, trace, tokens, lx, ly, mx, my,
           train_dataset, test_dataset, batch_size, n_training_iter,
           n_eval_iter, dataloader, evalloader, batch, yielded, draw_keys,
           params, opt_state, iter_id, prefix_idx, metrics, all_metrics,
           logged >>

modelVars == << d_model, num_heads, num_layers, subkeys, embedding, layers,
                logits, mask, trace >>
lossVars  == << tokens, lx, ly, mx, my >>
cfgVars   == << train_dataset, test_dataset, batch_size, n_training_iter,
                n_eval_iter >>
loopVars  == << dataloader, evalloader, batch, yielded, draw_keys, params,
                opt_state, iter_id, prefix_idx, metrics, all_metrics,
                logged >>

\* ---------------------------------------------------------------------------
\* jax.random
\* ---------------------------------------------------------------------------
RootKey == << 0 >>

\* random.split(key, num): num fresh keys derived from key
split(k, n) == [i \in 1..n |-> Append(k, i)]

\* the keys of a sequence, logged as consumed
RECURSIVE ConsumeAll(_, _)
ConsumeAll(bag, ks) ==
    IF ks = << >> THEN bag
    ELSE ConsumeAll(bag (+) SetToBag({Head(ks)}), Tail(ks))

\* ---------------------------------------------------------------------------
\* DecoderOnlyLayer.__init__
\* ---------------------------------------------------------------------------
\* Result of constructing one layer from key k: the assertion on the
\* dimensions, then the keys the constructor consumes, in order.
DecoderOnlyLayerInit(dm, nh, k) ==
    IF dm % nh # 0
    THEN [ok |-> FALSE, used |-> << >>, layer |-> << >>]
    ELSE LET s1 == split(k, 2)          \* key, sk = random.split(key)
             s2 == split(s1[1], 3)      \* key, sk_1, sk_2 = random.split(key, 3)
         IN [ok   |-> TRUE,
             used |-> << k, s1[2], s1[1], s2[2], s2[3] >>,
             layer |-> [mha |-> [num_heads |-> nh, d_model |-> dm, key |-> s1[2]],
                        ffn |-> << [in |-> dm, out |-> dm * FfnExpand, key |-> s2[2]],
                                   [in |-> FfnExpand * dm, out |-> dm, key |-> s2[3]] >>]]

\* ---------------------------------------------------------------------------
\* DecoderOnlyTransformer.__call__ : the attention mask
\* ---------------------------------------------------------------------------
eye(n) == [i \in 1..n |-> [j \in 1..n |-> IF i = j THEN 1 ELSE 0]]

RECURSIVE PrefixSum(_, _)
PrefixSum(row, j) == IF j = 0 THEN 0 ELSE row[j] + PrefixSum(row, j - 1)

\* jnp.cumsum(m, axis=1): running sum along each row
cumsum_axis1(m) == [i \in 1..Len(m) |-> [j \in 1..Len(m[i]) |-> PrefixSum(m[i], j)]]

\* m.T
transpose(m) == [i \in 1..Len(m) |-> [j \in 1..Len(m) |-> m[j][i]]]

\* m.astype(bool)
astype_bool(m) == [i \in 1..Len(m) |-> [j \in 1..Len(m[i]) |-> m[i][j] # 0]]

BuildMask_NoTranspose(L) == astype_bool(cumsum_axis1(eye(L)))

BuildMask(L) == astype_bool(transpose(cumsum_axis1(eye(L))))

\* ---------------------------------------------------------------------------
\* DecoderOnlyTransformer.__init__
\* ---------------------------------------------------------------------------
\* key, sk = random.split(key); embedding; key, *subkeys = random.split(key, num_layers)
CtorEmbedding ==
    /\ pc = "c_start"
    /\ LET s1 == split(key, 2)
           s2 == split(s1[1], num_layers)
       IN /\ embedding' = TRUE
          /\ key' = s2[1]
          /\ subkeys' = Tail(s2)
          /\ consumed' = ConsumeAll(consumed, << key, s1[2], s1[1] >>)
    /\ pc' = "c_layers"
    /\ UNCHANGED << d_model, num_heads, num_layers, layers, logits, mask, trace >>
    /\ UNCHANGED << lossVars, cfgVars, loopVars >>

\* one element of [DecoderOnlyLayer(d_model, num_heads, sk) for sk in subkeys]
CtorLayer ==
    /\ pc = "c_layers"
    /\ subkeys # << >>
    /\ LET r == DecoderOnlyLayerInit(d_model, num_heads, Head(subkeys))
       IN IF r.ok
          THEN /\ layers' = Append(layers, r.layer)
               /\ consumed' = ConsumeAll(consumed, r.used)
               /\ subkeys' = Tail(subkeys)
               /\ pc' = "c_layers"
          ELSE /\ pc' = "c_error"       \* AssertionError leaves the constructor
               /\ UNCHANGED << layers, consumed, subkeys >>
    /\ UNCHANGED << key, d_model, num_heads, num_layers, embedding, logits, mask, trace >>
    /\ UNCHANGED << lossVars, cfgVars, loopVars >>

\* self.logits = nn.Linear(d_model, num_logits, key=key); the model is returned
CtorLogits ==
    /\ pc = "c_layers"
    /\ subkeys = << >>
    /\ logits' = TRUE
    /\ consumed' = ConsumeAll(consumed, << key >>)
    /\ pc' = "c_done"
    /\ UNCHANGED << key, d_model, num_heads, num_layers, subkeys, embedding, layers, mask, trace >>
    /\ UNCHANGED << lossVars, cfgVars, loopVars >>

\* ---------------------------------------------------------------------------
\* DecoderOnlyTransformer.__call__
\* ---------------------------------------------------------------------------
Call ==
    /\ pc = "c_done"
    /\ \E L \in 1..MaxSeqLen :
        /\ mask' = BuildMask(L)
        /\ trace' = << "embedding" >> \o [i \in 1..Len(layers) |-> "layer"] \o << "logits" >>
    /\ pc' = "c_called"
    /\ UNCHANGED << key, consumed, d_model, num_heads, num_layers, subkeys, embedding, layers, logits >>
    /\ UNCHANGED << lossVars, cfgVars, loopVars >>

\* ---------------------------------------------------------------------------
\* loss_fn / batch_metrics : context and targets of a batch
\* ---------------------------------------------------------------------------
\* tokens[:, :-1]
DropLast(toks) == [b \in 1..Len(toks) |-> SubSeq(toks[b], 1, Len(toks[b]) - 1)]

\* tokens[:, 1:]
DropFirst(toks) == [b \in 1..Len(toks) |-> SubSeq(toks[b], 2, Len(toks[b]))]

\* loss_fn: x, y = tokens[:, :-1], tokens[:, 1:]
LossSplit(toks) == [x |-> DropLast(toks), y |-> DropFirst(toks)]

MetricsSplit_Unshifted(toks) == [x |-> DropLast(toks), y |-> DropLast(toks)]

\* batch_metrics: x, y = tokens[:, :-1], tokens[:, 1:]
MetricsSplit(toks) == [x |-> DropLast(toks), y |-> DropFirst(toks)]

MetricNames == {"cross-entropy", "accuracy"}

\* batch_metrics(params, static, batch): one value per metric name.  A value
\* is kept symbolically: the parameters and the samples it was computed from.
batch_metrics(p, b) ==
    [name \in MetricNames |->
        [params |-> p, src |-> {b[i].src : i \in 1..Len(b)}, n |-> 1]]

\* jnp.mean over the values accumulated for one metric
RECURSIVE SrcUnion(_)
SrcUnion(vs) == IF vs = << >> THEN {} ELSE Head(vs).src \cup SrcUnion(Tail(vs))

mean(vs) == [params |-> vs[Len(vs)].params, src |-> SrcUnion(vs), n |-> Len(vs)]

\* standalone calls on an arbitrary batch
LossFn ==
    /\ pc = "l_start"
    /\ lx' = LossSplit(tokens).x
    /\ ly' = LossSplit(tokens).y
    /\ pc' = "l_loss"
    /\ UNCHANGED << key, consumed, tokens, mx, my >>
    /\ UNCHANGED << modelVars, cfgVars, loopVars >>

BatchMetrics ==
    /\ pc = "l_loss"
    /\ mx' = MetricsSplit(tokens).x
    /\ my' = MetricsSplit(tokens).y
    /\ pc' = "l_metrics"
    /\ UNCHANGED << key, consumed, tokens, lx, ly >>
    /\ UNCHANGED << modelVars, cfgVars, loopVars >>

\* ---------------------------------------------------------------------------
\* the dataset collaborator
\* ---------------------------------------------------------------------------
\* the token ids stored in the datasets and in the batches given to loss_fn
TokenIds == {0, 1}

DataSeqLen == 2

Item(name, id) ==
    [t \in 1..DataSeqLen |-> IF name = "train" THEN (id + t) % Cardinality(TokenIds)
                            ELSE (id + 2 * t) % Cardinality(TokenIds)]

Dataset(name, n) == [name |-> name, items |-> [i \in 1..n |-> Item(name, i - 1)]]

\* len(dataset)
len(ds) == Len(ds.items)

\* dataset[id_]
getitem(ds, id) == [src |-> ds.name, id |-> id, tokens |-> ds.items[id + 1]]

\* ---------------------------------------------------------------------------
\* loader
\* ---------------------------------------------------------------------------
choice_NoReplace(n, size) ==
    {v \in [1..size -> 0..(n - 1)] : \A i, j \in 1..size : i # j => v[i] # v[j]}

\* random.choice(sk, n, (size,), replace=True): the id vectors it can return
choice(n, size) == [1..size -> 0..(n - 1)]

\* the generator object returned by loader(...); its body has not run yet
NewLoader(ds, bs, n, k) ==
    [dataset |-> ds, batch_size |-> bs, n_iters |-> n, key |-> k,
     started |-> FALSE, subkeys |-> << >>]

NoLoader == << >>

LoaderNext_SharedKey(g) ==
    LET ks    == IF g.started THEN g.subkeys ELSE split(g.key, g.n_iters)
        used0 == IF g.started THEN << >> ELSE << g.key >>
        g1    == [g EXCEPT !.started = TRUE, !.subkeys = ks]
    IN IF ks = << >>
       THEN {[kind |-> "stop", gen |-> g1, batch |-> << >>, used |-> used0, sk |-> << >>]}
       ELSE LET ids == choice(len(g.dataset), g.batch_size)
            IN IF ids = {}
               THEN {[kind |-> "error", gen |-> g1, batch |-> << >>,
                      used |-> Append(used0, g.key), sk |-> g.key]}
               ELSE {[kind |-> "yield",
                      gen |-> [g1 EXCEPT !.subkeys = Tail(ks)],
                      batch |-> [i \in 1..g.batch_size |-> getitem(g.dataset, v[i])],
                      used |-> Append(used0, g.key), sk |-> g.key] : v \in ids}

\* next(generator): the outcomes of resuming the generator once.
\*   "yield": one batch; "stop": the for loop is exhausted;
\*   "error": random.choice / dataset[id_] raises on an empty dataset.
\* `used` lists the keys consumed by this resumption.
LoaderNext(g) ==
    LET ks    == IF g.started THEN g.subkeys ELSE split(g.key, g.n_iters)
        used0 == IF g.started THEN << >> ELSE << g.key >>
        g1    == [g EXCEPT !.started = TRUE, !.subkeys = ks]
    IN IF ks = << >>
       THEN {[kind |-> "stop", gen |-> g1, batch |-> << >>, used |-> used0, sk |-> << >>]}
       ELSE LET sk  == Head(ks)
                ids == choice(len(g.dataset), g.batch_size)
            IN IF ids = {}
               THEN {[kind |-> "error", gen |-> g1, batch |-> << >>,
                      used |-> Append(used0, sk), sk |-> sk]}
               ELSE {[kind |-> "yield",
                      gen |-> [g1 EXCEPT !.subkeys = Tail(ks)],
                      batch |-> [i \in 1..g.batch_size |-> getitem(g.dataset, v[i])],
                      used |-> Append(used0, sk), sk |-> sk] : v \in ids}

\* standalone iteration of loader(train_dataset, batch_size, n_training_iter, key)
LoaderYield ==
    /\ pc = "g_loop"
    /\ \E o \in LoaderNext(dataloader) :
        /\ o.kind = "yield"
        /\ dataloader' = o.gen
        /\ batch' = o.batch
        /\ consumed' = ConsumeAll(consumed, o.used)
        /\ draw_keys' = Append(draw_keys, o.sk)
    /\ yielded' = yielded + 1
    /\ pc' = "g_loop"
    /\ UNCHANGED << key, evalloader, params, opt_state, iter_id, prefix_idx,
                    metrics, all_metrics, logged >>
    /\ UNCHANGED << modelVars, lossVars, cfgVars >>

LoaderStop ==
    /\ pc = "g_loop"
    /\ \E o \in LoaderNext(dataloader) :
        /\ o.kind = "stop"
        /\ dataloader' = o.gen
        /\ consumed' = ConsumeAll(consumed, o.used)
    /\ batch' = << >>
    /\ pc' = "g_done"
    /\ UNCHANGED << key, evalloader, yielded, draw_keys, params, opt_state, iter_id,
                    prefix_idx, metrics, all_metrics, logged >>
    /\ UNCHANGED << modelVars, lossVars, cfgVars >>

LoaderFail ==
    /\ pc = "g_loop"
    /\ \E o \in LoaderNext(dataloader) :
        /\ o.kind = "error"
        /\ dataloader' = o.gen
        /\ consumed' = ConsumeAll(consumed, o.used)
    /\ batch' = << >>
    /\ pc' = "g_error"
    /\ UNCHANGED << key, evalloader, yielded, draw_keys, params, opt_state, iter_id,
                    prefix_idx, metrics, all_metrics, logged >>
    /\ UNCHANGED << modelVars, lossVars, cfgVars >>

\* ---------------------------------------------------------------------------
\* train
\* ---------------------------------------------------------------------------
\* optimizer.update + optax.apply_updates: parameters and optimizer state
\* (with its step count) after one step.  Both are kept as version numbers.
AdamWStep(p, o) == [params |-> p + 1, opt_state |-> o + 1]

EvalDue_OneBased(i) == (i + 1) % EvalEvery = 0

\* if iter_id % 100 == 0
EvalDue(i) == i % EvalEvery = 0

\* [(train_dataset, "train"), (test_dataset, "test")]
EvalPairs ==
    << [dataset |-> train_dataset, prefix |-> "train"],
       [dataset |-> test_dataset,  prefix |-> "test"] >>

\* metrics[name].append(value) on a defaultdict(list)
AppendMetrics(m, new) ==
    [name \in (DOMAIN m) \cup (DOMAIN new) |->
        IF name \in DOMAIN new
        THEN Append(IF name \in DOMAIN m THEN m[name] ELSE << >>, new[name])
        ELSE m[name]]

\* {f"{prefix}/{name}": value for name, value in metrics.items()}
Prefixed(prefix, m) == [k \in {<< prefix, name >> : name \in DOMAIN m} |-> m[k[2]]]

\* all_metrics.update(metrics)
DictUpdate(a, m) ==
    [k \in (DOMAIN a) \cup (DOMAIN m) |-> IF k \in DOMAIN m THEN m[k] ELSE a[k]]

\* lines 134-147: optimizer created, key split, training generator created
TrainStart ==
    /\ pc = "t_start"
    /\ LET s == split(key, 2)
       IN /\ key' = s[1]
          /\ consumed' = ConsumeAll(consumed, << key >>)
          /\ dataloader' = NewLoader(train_dataset, batch_size, n_training_iter, s[2])
    /\ opt_state' = 0
    /\ pc' = "t_loop"
    /\ UNCHANGED << evalloader, batch, yielded, draw_keys, params, iter_id,
                    prefix_idx, metrics, all_metrics, logged >>
    /\ UNCHANGED << modelVars, lossVars, cfgVars >>

\* for iter_id, batch in enumerate(dataloader): one more batch
TrainDraw ==
    /\ pc = "t_loop"
    /\ \E o \in LoaderNext(dataloader) :
        /\ o.kind = "yield"
        /\ dataloader' = o.gen
        /\ batch' = o.batch
        /\ consumed' = ConsumeAll(consumed, o.used)
        /\ draw_keys' = Append(draw_keys, o.sk)
    /\ iter_id' = yielded
    /\ yielded' = yielded + 1
    /\ pc' = "t_step"
    /\ UNCHANGED << key, evalloader, params, opt_state, prefix_idx, metrics,
                    all_metrics, logged >>
    /\ UNCHANGED << modelVars, lossVars, cfgVars >>

\* the generator is exhausted: train returns
TrainStop ==
    /\ pc = "t_loop"
    /\ \E o \in LoaderNext(dataloader) :
        /\ o.kind = "stop"
        /\ dataloader' = o.gen
        /\ consumed' = ConsumeAll(consumed, o.used)
    /\ pc' = "t_done"
    /\ UNCHANGED << key, evalloader, batch, yielded, draw_keys, params, opt_state,
                    iter_id, prefix_idx, metrics, all_metrics, logged >>
    /\ UNCHANGED << modelVars, lossVars, cfgVars >>

\* drawing the training batch raises
TrainDrawFail ==
    /\ pc = "t_loop"
    /\ \E o \in LoaderNext(dataloader) :
        /\ o.kind = "error"
        /\ dataloader' = o.gen
        /\ consumed' = ConsumeAll(consumed, o.used)
    /\ pc' = "t_error"
    /\ UNCHANGED << key, evalloader, batch, yielded, draw_keys, params, opt_state,
                    iter_id, prefix_idx, metrics, all_metrics, logged >>
    /\ UNCHANGED << modelVars, lossVars, cfgVars >>

\* lines 150-156: gradient, optimizer update, then the cadence test
TrainUpdate ==
    /\ pc = "t_step"
    /\ params' = AdamWStep(params, opt_state).params
    /\ opt_state' = AdamWStep(params, opt_state).opt_state
    /\ batch' = << >>          \* the batch is not read after the gradient
    /\ IF EvalDue(iter_id)
       THEN /\ all_metrics' = << >>
            /\ prefix_idx' = 1
            /\ pc' = "t_eval"
       ELSE /\ pc' = "t_loop"
            /\ UNCHANGED << all_metrics, prefix_idx >>
    /\ UNCHANGED << key, consumed, dataloader, evalloader, yielded, draw_keys,
                    iter_id, metrics, logged >>
    /\ UNCHANGED << modelVars, lossVars, cfgVars >>

\* lines 159-160 and 89-97: key split, eval called, its generator created
EvalStart ==
    /\ pc = "t_eval"
    /\ LET s == split(key, 2)         \* key, sk = random.split(key)
       IN /\ key' = s[1]
          /\ consumed' = ConsumeAll(consumed, << key >>)
          \* eval(model, test_dataset, batch_size, n_eval_iter, key)
          /\ evalloader' = NewLoader(test_dataset, batch_size, n_eval_iter, s[1])
    /\ metrics' = << >>
    /\ pc' = "e_loop"
    /\ UNCHANGED << dataloader, batch, yielded, draw_keys, params, opt_state,
                    iter_id, prefix_idx, all_metrics, logged >>
    /\ UNCHANGED << modelVars, lossVars, cfgVars >>

EvalBatch_Trains ==
    /\ pc = "e_loop"
    /\ \E o \in LoaderNext(evalloader) :
        /\ o.kind = "yield"
        /\ evalloader' = o.gen
        /\ consumed' = ConsumeAll(consumed, o.used)
        /\ metrics' = AppendMetrics(metrics, batch_metrics(params, o.batch))
    /\ params' = AdamWStep(params, opt_state).params
    /\ opt_state' = AdamWStep(params, opt_state).opt_state
    /\ pc' = "e_loop"
    /\ UNCHANGED << key, dataloader, batch, yielded, draw_keys,
                    iter_id, prefix_idx, all_metrics, logged >>
    /\ UNCHANGED << modelVars, lossVars, cfgVars >>

\* lines 99-102: one evaluation batch and its metrics
EvalBatch ==
    /\ pc = "e_loop"
    /\ \E o \in LoaderNext(evalloader) :
        /\ o.kind = "yield"
        /\ evalloader' = o.gen
        /\ consumed' = ConsumeAll(consumed, o.used)
        /\ metrics' = AppendMetrics(metrics, batch_metrics(params, o.batch))
    /\ pc' = "e_loop"
    /\ UNCHANGED << key, dataloader, batch, yielded, draw_keys, params, opt_state,
                    iter_id, prefix_idx, all_metrics, logged >>
    /\ UNCHANGED << modelVars, lossVars, cfgVars >>

\* drawing the evaluation batch raises
EvalFail ==
    /\ pc = "e_loop"
    /\ \E o \in LoaderNext(evalloader) :
        /\ o.kind = "error"
        /\ evalloader' = o.gen
        /\ consumed' = ConsumeAll(consumed, o.used)
    /\ pc' = "t_error"
    /\ UNCHANGED << key, dataloader, batch, yielded, draw_keys, params, opt_state,
                    iter_id, prefix_idx, metrics, all_metrics, logged >>
    /\ UNCHANGED << modelVars, lossVars, cfgVars >>

\* lines 104-106 and 161-163: means, prefixed, merged into all_metrics
EvalFinish ==
    /\ pc = "e_loop"
    /\ \E o \in LoaderNext(evalloader) :
        /\ o.kind = "stop"
        /\ evalloader' = o.gen
        /\ consumed' = ConsumeAll(consumed, o.used)
    /\ LET means == [name \in DOMAIN metrics |-> mean(metrics[name])]
       IN all_metrics' = DictUpdate(all_metrics,
                                    Prefixed(EvalPairs[prefix_idx].prefix, means))
    /\ prefix_idx' = prefix_idx + 1
    /\ pc' = IF prefix_idx = Len(EvalPairs) THEN "t_log" ELSE "t_eval"
    /\ UNCHANGED << key, dataloader, batch, yielded, draw_keys, params, opt_state,
                    iter_id, metrics, logged >>
    /\ UNCHANGED << modelVars, lossVars, cfgVars >>

\* logger.log(all_metrics)
Log ==
    /\ pc = "t_log"
    /\ logged' = Append(logged, [iter_id |-> iter_id, metrics |-> all_metrics])
    /\ pc' = "t_loop"
    /\ UNCHANGED << key, consumed, dataloader, evalloader, batch, yielded, draw_keys,
                    params, opt_state, iter_id, prefix_idx, metrics, all_metrics >>
    /\ UNCHANGED << modelVars, lossVars, cfgVars >>

\* ---------------------------------------------------------------------------
\* initial states and the specification
\* ---------------------------------------------------------------------------
IdleModel ==
    /\ d_model = 1 /\ num_heads = 1 /\ num_layers = 1
    /\ subkeys = << >> /\ embedding = FALSE /\ layers = << >> /\ logits = FALSE
    /\ mask = << >> /\ trace = << >>

IdleLoss ==
    /\ tokens = << >> /\ lx = << >> /\ ly = << >> /\ mx = << >> /\ my = << >>

IdleLoop ==
    /\ evalloader = NoLoader /\ batch = << >> /\ yielded = 0 /\ draw_keys = << >>
    /\ params = 0 /\ opt_state = 0 /\ iter_id = 0 /\ prefix_idx = 0
    /\ metrics = << >> /\ all_metrics = << >> /\ logged = << >>

IdleCfg ==
    /\ train_dataset = Dataset("train", 0) /\ test_dataset = Dataset("test", 0)
    /\ batch_size = 1 /\ n_training_iter = 0 /\ n_eval_iter = 0

\* DecoderOnlyTransformer(num_embeddings, d_model, num_heads, num_layers, num_logits, key)
InitModel ==
    /\ pc = "c_start"
    /\ d_model \in 1..MaxDModel
    /\ num_heads \in 1..MaxHeads
    /\ num_layers \in 1..MaxLayers
    /\ subkeys = << >> /\ embedding = FALSE /\ layers = << >> /\ logits = FALSE
    /\ mask = << >> /\ trace = << >>
    /\ IdleLoss /\ IdleCfg /\ IdleLoop /\ dataloader = NoLoader

\* the B x L integer batches over the vocabulary
TokenBatches ==
    UNION {[1..B -> [1..L -> TokenIds]] : B \in 1..MaxBatch, L \in 2..MaxSeqLen}

InitLoss ==
    /\ pc = "l_start"
    /\ tokens \in TokenBatches
    /\ lx = << >> /\ ly = << >> /\ mx = << >> /\ my = << >>
    /\ IdleModel /\ IdleCfg /\ IdleLoop /\ dataloader = NoLoader

\* loader(train_dataset, batch_size, n_training_iter, key), not yet resumed
InitLoader ==
    /\ pc = "g_loop"
    /\ \E n \in 0..MaxData : train_dataset = Dataset("train", n)
    /\ test_dataset = Dataset("test", 0)
    /\ batch_size \in 1..MaxBatch
    /\ n_training_iter \in 0..MaxLoaderIter
    /\ n_eval_iter = 0
    /\ dataloader = NewLoader(train_dataset, batch_size, n_training_iter, RootKey)
    /\ IdleModel /\ IdleLoss /\ IdleLoop

\* train(model, train_dataset, test_dataset, lr, batch_size, n_training_iter, n_eval_iter, logger, key)
InitTrain ==
    /\ pc = "t_start"
    /\ \E n \in 0..MaxData : train_dataset = Dataset("train", n)
    /\ \E n \in 0..MaxData : test_dataset = Dataset("test", n)
    /\ batch_size \in 1..MaxBatch
    /\ n_training_iter \in {0, 1, 2, EvalEvery, MaxTrainIter}
    /\ n_eval_iter \in 1..MaxEvalIter
    /\ dataloader = NoLoader
    /\ IdleModel /\ IdleLoss /\ IdleLoop

Init ==
    /\ key = RootKey
    /\ consumed = EmptyBag
    /\ \/ InitModel
       \/ InitLoss
       \/ InitLoader
       \/ InitTrain

Next ==
    \/ CtorEmbedding
    \/ CtorLayer
    \/ CtorLogits
    \/ Call
    \/ LossFn
    \/ BatchMetrics
    \/ LoaderYield
    \/ LoaderStop
    \/ LoaderFail
    \/ TrainStart
    \/ TrainDraw
    \/ TrainStop
    \/ TrainDrawFail
    \/ TrainUpdate
    \/ EvalStart
    \/ EvalBatch
    \/ EvalFail
    \/ EvalFinish
    \/ Log

Spec == Init /\ [][Next]_vars

\* ---------------------------------------------------------------------------
\* properties
\* ---------------------------------------------------------------------------
ModelBuilt == pc \in {"c_done", "c_called"}
InLoader   == pc \in {"g_loop", "g_done", "g_error"}
InTrain    == pc \in {"t_start", "t_loop", "t_step", "t_eval", "e_loop", "t_log",
                      "t_done", "t_error"}
InEvalPass == pc \in {"t_eval", "e_loop", "t_log"}

\* C1: a constructed model holds exactly num_layers layers, and a forward
\* call applies the embedding, then exactly num_layers layers, then the
\* output projection.
C1_LayerCount ==
    /\ ModelBuilt => Len(layers) = num_layers
    /\ pc = "c_called" =>
           trace = << "embedding" >> \o [i \in 1..num_layers |-> "layer"] \o << "logits" >>

\* C2: every logged evaluation reports, under "train/", metrics computed from
\* n_eval_iter batches of train_dataset only and, under "test/", from
\* n_eval_iter batches of test_dataset only.
C2_MetricsSource ==
    \A i \in 1..Len(logged) : \A p \in 1..Len(EvalPairs) : \A name \in MetricNames :
        LET k == << EvalPairs[p].prefix, name >>
        IN /\ k \in DOMAIN logged[i].metrics
           /\ logged[i].metrics[k].src = {EvalPairs[p].dataset.name}
           /\ logged[i].metrics[k].n = n_eval_iter

\* C3: no key is passed to more than one consuming call (split, sampling,
\* layer initializer).
C3_NoKeyReuse ==
    \A k \in BagToSet(consumed) : CopiesIn(k, consumed) <= 1

\* C4: a model is never returned when d_model is not divisible by num_heads.
C4_DivisibleOrFail ==
    ModelBuilt => d_model % num_heads = 0

\* C5: the mask built by a forward call on a sequence of length L is the L x L
\* lower-triangular mask: mask[i][j] is true iff j <= i.
C5_CausalMask ==
    pc = "c_called" =>
        /\ Len(mask) \in 1..MaxSeqLen
        /\ \A i \in 1..Len(mask) :
              /\ Len(mask[i]) = Len(mask)
              /\ \A j \in 1..Len(mask) : mask[i][j] = (j <= i)

C5_Witness ==
    /\ pc = "c_called"
    /\ Len(mask) >= 2
    /\ mask[2][1] /\ ~ mask[1][2] /\ mask[2][2]

\* C6 as stated: started with an empty dataset or a batch_size larger than the
\* dataset, train draws no batch and applies no update.
Degenerate ==
    \/ len(train_dataset) = 0 \/ batch_size > len(train_dataset)
    \/ len(test_dataset) = 0  \/ batch_size > len(test_dataset)

C6_AbortsBeforeWork ==
    (InTrain /\ Degenerate) => (yielded = 0 /\ params = 0)

\* C6 amended: train validates nothing up front.  A batch_size larger than a
\* non-empty dataset is no error (sampling is with replacement): the run
\* completes with one update per training iteration.  An empty training
\* dataset fails at the first batch draw, before any update; an empty test
\* dataset fails in the first evaluation pass, after the first update.
C6_NoUpFrontValidation ==
    InTrain =>
        /\ (len(train_dataset) >= 1 /\ len(test_dataset) >= 1) => pc # "t_error"
        /\ pc = "t_done" => (params = n_training_iter /\ yielded = n_training_iter)
        /\ len(train_dataset) = 0 =>
              /\ yielded = 0 /\ params = 0 /\ opt_state = 0
              /\ pc \in {"t_start", "t_loop", "t_error", "t_done"}
              /\ pc = "t_done" => n_training_iter = 0
        /\ (pc = "t_error" /\ len(train_dataset) >= 1) =>
              (len(test_dataset) = 0 /\ yielded = 1 /\ params = 1)

C6_Witness ==
    /\ pc = "t_done"
    /\ len(train_dataset) >= 1
    /\ batch_size > len(train_dataset)
    /\ params = n_training_iter
    /\ params >= 1

\* C7: an evaluation pass runs after the update of exactly the steps whose
\* zero-based index is a multiple of 100; logger.log is called once per pass,
\* with both the train- and the test-prefixed metrics, before the next step.
AllMetricKeys == {<< EvalPairs[p].prefix, name >> : p \in 1..Len(EvalPairs), name \in MetricNames}

C7_EvalCadence ==
    InTrain =>
        /\ InEvalPass =>
              /\ iter_id % EvalEvery = 0
              /\ params = iter_id + 1
              /\ Len(logged) = iter_id \div EvalEvery
        /\ pc \in {"t_loop", "t_done"} =>
              Len(logged) = (yielded + EvalEvery - 1) \div EvalEvery
        /\ pc = "t_step" =>
              Len(logged) = (iter_id + EvalEvery - 1) \div EvalEvery
        /\ pc = "t_log" => DOMAIN all_metrics = AllMetricKeys
        /\ \A i \in 1..Len(logged) :
              /\ logged[i].iter_id = (i - 1) * EvalEvery
              /\ DOMAIN logged[i].metrics = AllMetricKeys

C7_Witness ==
    /\ pc = "t_step"
    /\ iter_id = EvalEvery + 1
    /\ Len(logged) = 2

\* C8: on a non-empty dataset loader yields exactly n_iters batches and then
\* stops; each batch holds batch_size samples of the dataset at indices in
\* [0, N), and the i-th batch is drawn with the i-th subkey of the key.
C8_LoaderBatches ==
    (InLoader /\ len(train_dataset) >= 1) =>
        /\ pc # "g_error"
        /\ yielded <= n_training_iter
        /\ pc = "g_done" => yielded = n_training_iter
        /\ (pc = "g_loop" /\ yielded >= 1) =>
              /\ Len(batch) = batch_size
              /\ \A i \in 1..Len(batch) :
                    /\ batch[i].id \in 0..(len(train_dataset) - 1)
                    /\ batch[i].src = train_dataset.name
                    /\ batch[i].tokens = train_dataset.items[batch[i].id + 1]
        /\ Len(draw_keys) = yielded
        /\ \A i \in 1..Len(draw_keys) : draw_keys[i] = Append(RootKey, i)
        /\ \A i, j \in 1..Len(draw_keys) : i # j => draw_keys[i] # draw_keys[j]

C8_Witness ==
    /\ pc = "g_loop"
    /\ yielded >= 2
    /\ yielded = n_training_iter
    /\ Len(batch) = 2
    /\ batch[1].id = batch[2].id
    /\ len(train_dataset) >= 2

\* C9: parameters and optimizer state change only in the optimizer update of
\* a training step, once per drawn training batch; evaluation and logging
\* leave them unchanged, so a step starts from the previous step's update.
C9_OnlyUpdateMutates ==
    /\ [](InTrain =>
            /\ params = opt_state
            /\ params = IF pc = "t_step" THEN yielded - 1 ELSE yielded
            /\ pc = "t_step" => params = iter_id)
    /\ [][(params' # params \/ opt_state' # opt_state) =>
            (pc = "t_step" /\ params' = params + 1 /\ opt_state' = opt_state + 1)]_vars

C9_Witness ==
    /\ pc = "t_step"
    /\ iter_id = 1
    /\ Len(logged) = 1
    /\ params = 1

\* C10: loss_fn and batch_metrics both split a B x L batch into x and y of
\* length L-1 with x[b][t] = batch[b][t] and y[b][t] = batch[b][t+1].
ShiftByOne(toks, x, y) ==
    /\ Len(x) = Len(toks) /\ Len(y) = Len(toks)
    /\ \A b \in 1..Len(toks) :
          /\ Len(x[b]) = Len(toks[b]) - 1
          /\ Len(y[b]) = Len(toks[b]) - 1
          /\ \A t \in 1..(Len(toks[b]) - 1) :
                /\ x[b][t] = toks[b][t]
                /\ y[b][t] = toks[b][t + 1]

C10_ShiftByOne ==
    /\ pc \in {"l_loss", "l_metrics"} => ShiftByOne(tokens, lx, ly)
    /\ pc = "l_metrics" => (ShiftByOne(tokens, mx, my) /\ mx = lx /\ my = ly)

C10_Witness ==
    /\ pc = "l_metrics"
    /\ Len(tokens) = 2
    /\ Len(tokens[1]) = 3
    /\ mx[1] # my[1]
    /\ my[1][2] = tokens[1][3]

====
